---- MODULE Spec2Model ----
(***************************************************************************)
(* The candle-driven exchange simulator of bots/backtest_bot.py:           *)
(* BacktestBot.execute_exchange_logic (liquidation check, long-book        *)
(* matching, short-book matching, pending-order admission), the driver     *)
(* loop start_websocket and the strategy entry points create_orders and    *)
(* cancel_orders.                                                          *)
(*                                                                         *)
(* Floating-point amounts are modelled as exact rationals <<n, d>>, d > 0, *)
(* in lowest terms.  Order and candle prices and all quantities are whole  *)
(* multiples of price_step = quantity_step = 1.  Timestamps count candle   *)
(* intervals; latency and call_interval * 1000 are in the same unit.       *)
(*                                                                         *)
(* Bot (bots/base_bot.py), OrderList, Position and helpers.optimized are   *)
(* not part of the sources at hand: handle_order_update,                   *)
(* handle_account_update, the OrderList operations and the numeric helpers *)
(* are modelled from sections 4.1 to 4.3 of the specification.             *)
(***************************************************************************)
EXTENDS Integers, Sequences, FiniteSets, TLC

\* ------------------------------------------------------------------ bounds

\* Number of rows of the candle matrix self.data.
MaxCandles == 5
\* Number of orders the strategy creates over a run (client ids 1..MaxOrders).
MaxOrders == 2
\* Longest list handed to one create_orders / cancel_orders call.
MaxBatch == 1
\* Number of cancellations the strategy asks for over a run.
MaxCancels == 1

\* Price levels of candles, prices and quantities of the strategy's orders,
\* candle volumes.
CandlePrices == {1, 2, 3}
CandleVolumes == {0, 1, 3}
OrderPrices == {2}
OrderQtys == {3}

\* Configurations (BacktestConfig) and starting balances explored.
Leverages == {1}
MakerFees == {<<1, 10>>}
TakerFees == {<<1, 5>>}
NegativeMakerFees == {<<-1, 10>>}
Latencies == {1}
SlowLatencies == {2}
CallIntervals == {1}
SlowCallIntervals == {2}
StartBalances == {8}

\* config.price_step and config.quantity_step.
PriceStep == 1
QuantityStep == 1

\* ------------------------------------------------------------- enumerations

LONG == "LONG"
SHORT == "SHORT"
BUY == "BUY"
SELL == "SELL"
MARKET == "MARKET"
LIMIT == "LIMIT"
TP == "TP"
SL == "SL"
CALCULATED == "CALCULATED"
\* NEW of definitions.order (NEW is a reserved word of TLA+).
NEW_ACTION == "NEW"
PARTIALLY_FILLED == "PARTIALLY_FILLED"
FILLED == "FILLED"
CANCELED == "CANCELED"
LQ == "LIQUIDATION"

\* F applied to the value of x: x is evaluated once.
Bind(x, F(_)) == CHOOSE r \in {F(v) : v \in {x}} : TRUE

\* --------------------------------------------------------------- rationals

Abs(n) == IF n < 0 THEN -n ELSE n

RECURSIVE GCD(_, _)
GCD(a, b) == IF b = 0 THEN a ELSE GCD(b, a % b)

\* n / d in lowest terms with a positive denominator (d # 0).
Rat(n, d) ==
    LET s == IF d < 0 THEN -1 ELSE 1
        g == GCD(Abs(n), Abs(d))
    IN  <<(s * n) \div g, (s * d) \div g>>

RI(n) == <<n, 1>>
RZero == <<0, 1>>
RAdd(x, y) == Rat(x[1] * y[2] + y[1] * x[2], x[2] * y[2])
RSub(x, y) == Rat(x[1] * y[2] - y[1] * x[2], x[2] * y[2])
RMul(x, y) == Rat(x[1] * y[1], x[2] * y[2])
RDiv(x, y) == Rat(x[1] * y[2], x[2] * y[1])
RNeg(x) == <<-x[1], x[2]>>
RLt(x, y) == x[1] * y[2] < y[1] * x[2]
RLe(x, y) == x[1] * y[2] <= y[1] * x[2]
RFloor(x) == x[1] \div x[2]

\* ------------------------------------------------------------- math kernel

\* Largest multiple of step that is <= x (x a rational, step a whole number).
round_down(x, step) == RFloor(RDiv(x, RI(step))) * step

\* Linear contracts (inverse = False): qty * price * c_mult.
quantity_to_cost(qty, price, c_mult) == RMul(RMul(qty, price), RI(c_mult))

calculate_long_pnl(entry, exit, qty, c_mult) ==
    RMul(RMul(RSub(exit, entry), qty), RI(c_mult))

calculate_short_pnl(entry, exit, qty, c_mult) ==
    RMul(RMul(RSub(entry, exit), qty), RI(c_mult))

\* (new size, new price) of a position of old_qty at old_price after a fill of
\* the signed quantity delta at fill_price.  A reduction beyond the position
\* size is not clamped and not reversed: the size goes on signed.
calculate_new_position_size_position_price(old_qty, old_price, delta, fill_price, qty_step) ==
    LET new_qty == ((old_qty + delta) \div qty_step) * qty_step
    IN  IF new_qty = 0 THEN <<0, RZero>>
        ELSE IF delta > 0
        THEN <<new_qty,
               RDiv(RAdd(RMul(RI(old_qty), old_price), RMul(RI(delta), fill_price)),
                    RI(new_qty))>>
        ELSE <<new_qty, old_price>>

\* balance - required margin of both sides + unrealized pnl at the mark price.
calculate_available_margin(bal, long_qty, long_price, short_qty, short_price, mark, c_mult, lev) ==
    LET required == RDiv(RAdd(quantity_to_cost(RI(long_qty), long_price, c_mult),
                              quantity_to_cost(RI(short_qty), short_price, c_mult)),
                         RI(lev))
        upnl == RAdd(calculate_long_pnl(long_price, RI(mark), RI(long_qty), c_mult),
                     calculate_short_pnl(short_price, RI(mark), RI(short_qty), c_mult))
    IN  RAdd(RSub(bal, required), upnl)

\* -------------------------------------------------------------- data model

\* Order(symbol, order_id, price, stop_price, qty, type, side, timestamp,
\* action, position_side); symbol and stop_price are carried along unread.
Order(order_id, price, qty, type, side, timestamp, action, position_side) ==
    [order_id |-> order_id, price |-> price, qty |-> qty, type |-> type, side |-> side,
     timestamp |-> timestamp, action |-> action, position_side |-> position_side]

\* Position(symbol, size, price, liquidation_price, upnl, leverage,
\* position_side); size and qty name the same field.  liquidation_price is
\* written by the fills and read by nothing, and is left out.
Position(qty, price, position_side) ==
    [qty |-> qty, price |-> price, position_side |-> position_side]

\* Candle(open, high, low, close, volume)
Candle(open, high, low, close, volume) ==
    [open |-> open, high |-> high, low |-> low, close |-> close, volume |-> volume]

\* No candle: before the first step and once the step's result is consumed.
NoCandle == Candle(0, 0, 0, 0, 0)

\* empty_order_list()
empty_order_list == <<>>

\* OrderList(): the two sequences long and short.
OrderList == [long |-> <<>>, short |-> <<>>]

\* Two orders are the same order when client id and position side agree.
SameOrder(a, b) == a.order_id = b.order_id /\ a.position_side = b.position_side

RECURSIVE Without(_, _)
\* seq without the orders that are the same order as one of gone.
Without(seq, gone) ==
    IF seq = <<>> THEN <<>>
    ELSE LET rest == Without(Tail(seq), gone)
         IN  IF \E k \in 1..Len(gone) : SameOrder(Head(seq), gone[k])
             THEN rest ELSE <<Head(seq)>> \o rest

add_long(list, orders) == [list EXCEPT !.long = @ \o orders]
add_short(list, orders) == [list EXCEPT !.short = @ \o orders]
delete_long(list, orders) == [list EXCEPT !.long = Without(@, orders)]
delete_short(list, orders) == [list EXCEPT !.short = Without(@, orders)]

\* In-place quantity update of the orders of seq that are the same order as o.
WithQty(seq, o) ==
    [k \in 1..Len(seq) |-> IF SameOrder(seq[k], o) THEN [seq[k] EXCEPT !.qty = o.qty]
                           ELSE seq[k]]

update_long(list, o) == [list EXCEPT !.long = WithQty(@, o)]
update_short(list, o) == [list EXCEPT !.short = WithQty(@, o)]

\* ------------------------------------------------------------ account state

\* The events a step emits, in order.
OrderEvent(o) == [kind |-> "order", order |-> o]
AccountEvent(bal, long, short) ==
    [kind |-> "account", balance |-> bal, long |-> long, short |-> short]

\* handle_order_update that leaves an order in the open book when it is FILLED.
handle_order_update_keeping_filled(b, o) ==
    LET book == b.open_orders
        book2 ==
            IF o.action = NEW_ACTION
            THEN IF o.position_side = LONG THEN add_long(book, <<o>>)
                 ELSE add_short(book, <<o>>)
            ELSE IF o.action = PARTIALLY_FILLED
            THEN IF o.position_side = LONG THEN update_long(book, o)
                 ELSE update_short(book, o)
            ELSE IF o.action \in {CANCELED, LQ}
            THEN IF o.position_side = LONG THEN delete_long(book, <<o>>)
                 ELSE delete_short(book, <<o>>)
            ELSE book
    IN  [b EXCEPT !.open_orders = book2, !.events = Append(@, OrderEvent(o))]

\* Bot.handle_order_update on the bot state b: records the transition and
\* forwards it to the open book (append on NEW, in-place qty update on
\* PARTIALLY_FILLED, removal on FILLED, CANCELED and LIQUIDATION).
handle_order_update(b, o) ==
    LET book == b.open_orders
        book2 ==
            IF o.action = NEW_ACTION
            THEN IF o.position_side = LONG THEN add_long(book, <<o>>)
                 ELSE add_short(book, <<o>>)
            ELSE IF o.action = PARTIALLY_FILLED
            THEN IF o.position_side = LONG THEN update_long(book, o)
                 ELSE update_short(book, o)
            ELSE IF o.action \in {FILLED, CANCELED, LQ}
            THEN IF o.position_side = LONG THEN delete_long(book, <<o>>)
                 ELSE delete_short(book, <<o>>)
            ELSE book
    IN  [b EXCEPT !.open_orders = book2, !.events = Append(@, OrderEvent(o))]

\* Bot.handle_account_update: replaces balance and both positions.
handle_account_update(b, bal, long, short) ==
    [b EXCEPT !.balance = bal, !.long = long, !.short = short,
              !.events = Append(@, AccountEvent(bal, long, short))]

\* ------------------------------------------------------ simulated exchange

\* The available margin of the bot state b at the mark price mark.
AvailableMargin(b, mark, cfg) ==
    calculate_available_margin(b.balance, b.long.qty, b.long.price, b.short.qty,
                               b.short.price, mark, 1, cfg.leverage)

\* The liquidation test with the candle's open as mark price.
LiquidatedAtOpen(b, c, cfg) == RLe(AvailableMargin(b, c.open, cfg), RZero)

\* The liquidation test that opens the step.
Liquidated(b, c, cfg) == RLe(AvailableMargin(b, c.close, cfg), RZero)

\* The liquidation branch: one synthetic order and one account update for each
\* side that holds a position.
Liquidate(b, c, ts) ==
    Bind(IF b.long.qty # 0
         THEN handle_account_update(
                  handle_order_update(
                      b, Order(0, c.close, b.long.qty, CALCULATED, SELL, ts, LQ, LONG)),
                  RZero, Position(0, RZero, LONG), b.short)
         ELSE b, LAMBDA b1 :
        IF b1.short.qty # 0
        THEN handle_account_update(
                 handle_order_update(
                     b1, Order(0, c.close, b1.short.qty, CALCULATED, SELL, ts, LQ, SHORT)),
                 RZero, b1.long, Position(0, RZero, SHORT))
        ELSE b1)

\* The market price rounded to the nearest step instead of down.
MarketPriceNearest(c) ==
    round_down(RAdd(Rat(c.open + c.high + c.low + c.close, 4), Rat(PriceStep, 2)), PriceStep)

\* round_down(np.average([open, high, low, close]), price_step)
MarketPrice(c) == round_down(Rat(c.open + c.high + c.low + c.close, 4), PriceStep)

\* The triggers of the long book with <= and >=: a touched price executes.
ExecutesLongOnTouch(order, c) ==
    \/ order.type = MARKET
    \/ c.low <= order.price /\ ((order.type = LIMIT /\ order.side = BUY) \/ order.type = SL)
    \/ c.high >= order.price /\ ((order.type = LIMIT /\ order.side = SELL) \/ order.type = TP)

\* Whether an order of the long book executes in candle c.
ExecutesLong(order, c) ==
    \/ order.type = MARKET
    \/ c.low < order.price /\ ((order.type = LIMIT /\ order.side = BUY) \/ order.type = SL)
    \/ c.high > order.price /\ ((order.type = LIMIT /\ order.side = SELL) \/ order.type = TP)

\* Whether an order of the short book executes in candle c.
ExecutesShort(order, c) ==
    \/ order.type = MARKET
    \/ c.high > order.price /\ ((order.type = LIMIT /\ order.side = BUY) \/ order.type = SL)
    \/ c.low < order.price /\ ((order.type = LIMIT /\ order.side = SELL) \/ order.type = TP)

\* The working copy with the filled quantity on a partial fill.
WorkingCopyOfFill(order, c) ==
    LET priced == IF order.type = MARKET THEN [order EXCEPT !.price = MarketPrice(c)]
                  ELSE order
    IN  IF c.volume >= order.qty THEN [priced EXCEPT !.action = FILLED]
        ELSE [priced EXCEPT !.action = PARTIALLY_FILLED, !.qty = c.volume]

\* The working copy o of an executing order: market orders take the candle's
\* average price; a full fill keeps the quantity, a partial fill carries the
\* quantity that is left.
WorkingCopy(order, c) ==
    LET priced == IF order.type = MARKET THEN [order EXCEPT !.price = MarketPrice(c)]
                  ELSE order
    IN  IF c.volume >= order.qty THEN [priced EXCEPT !.action = FILLED]
        ELSE [priced EXCEPT !.action = PARTIALLY_FILLED, !.qty = order.qty - c.volume]

\* o.qty if o.action == FILLED else last_candle.volume
FillQty(o, c) == IF o.action = FILLED THEN o.qty ELSE c.volume

\* fee_paid: the cost of o at the taker rate for market orders, the maker rate
\* for the others, negated.
FeePaid(order, o, cfg) ==
    RNeg(RMul(quantity_to_cost(RI(o.qty), RI(o.price), 1),
              IF order.type = MARKET THEN cfg.taker_fee ELSE cfg.maker_fee))

\* The position a fill of fill_qty at price leaves: a SELL passes the quantity
\* negated, anything else passes it as it is.
AfterFill(p, order, fill_qty, price) ==
    calculate_new_position_size_position_price(
        p.qty, p.price, IF order.side = SELL THEN -fill_qty ELSE fill_qty,
        RI(price), QuantityStep)

\* pnl of a fill on the long book taken with the short formula.
LongPnlAsShort(p, order, o, c) ==
    IF order.side = SELL
    THEN calculate_short_pnl(p.price, RI(o.price), RI(FillQty(o, c)), 1)
    ELSE RZero

\* pnl of a fill on the long book: a SELL realizes the long pnl of the filled
\* quantity against the position's price, anything else realizes nothing.
LongPnl(p, order, o, c) ==
    IF order.side = SELL
    THEN calculate_long_pnl(p.price, RI(o.price), RI(FillQty(o, c)), 1)
    ELSE RZero

\* pnl of a fill on the short book: the same with calculate_short_pnl.
ShortPnl(p, order, o, c) ==
    IF order.side = SELL
    THEN calculate_short_pnl(p.price, RI(o.price), RI(FillQty(o, c)), 1)
    ELSE RZero

\* The long-book iteration with the account update emitted before the order
\* update.
FillLongAccountFirst(b, order, c, cfg) ==
    Bind(WorkingCopy(order, c), LAMBDA o :
    Bind(IF o.action = PARTIALLY_FILLED
         THEN [b EXCEPT !.open_orders = update_long(@, o)] ELSE b, LAMBDA b2 :
    Bind(AfterFill(b2.long, order, FillQty(o, c), o.price), LAMBDA np :
        LET fee_paid == FeePaid(order, o, cfg)
            pnl == LongPnl(b2.long, order, o, c)
        IN  handle_order_update(
                handle_account_update(b2, RAdd(RAdd(b2.balance, fee_paid), pnl),
                                      Position(np[1], np[2], LONG), b2.short), o))))

\* One iteration of the long-book loop for an executing order.
FillLong(b, order, c, cfg) ==
    Bind(WorkingCopy(order, c), LAMBDA o :
    Bind(handle_order_update(
             IF o.action = PARTIALLY_FILLED
             THEN [b EXCEPT !.open_orders = update_long(@, o)] ELSE b, o), LAMBDA b2 :
    Bind(AfterFill(b2.long, order, FillQty(o, c), o.price), LAMBDA np :
        LET fee_paid == FeePaid(order, o, cfg)
            pnl == LongPnl(b2.long, order, o, c)
        IN  handle_account_update(b2, RAdd(RAdd(b2.balance, fee_paid), pnl),
                                  Position(np[1], np[2], LONG), b2.short))))

\* One iteration of the short-book loop for an executing order.
FillShort(b, order, c, cfg) ==
    Bind(WorkingCopy(order, c), LAMBDA o :
    Bind(handle_order_update(
             IF o.action = PARTIALLY_FILLED
             THEN [b EXCEPT !.open_orders = update_short(@, o)] ELSE b, o), LAMBDA b2 :
    Bind(AfterFill(b2.short, order, FillQty(o, c), o.price), LAMBDA np :
        LET fee_paid == FeePaid(order, o, cfg)
            pnl == ShortPnl(b2.short, order, o, c)
        IN  handle_account_update(b2, RAdd(RAdd(b2.balance, fee_paid), pnl),
                                  b2.long, Position(np[1], np[2], LONG)))))

RECURSIVE MatchLong(_, _, _, _)
\* for order in self.open_orders.long, over the orders the loop visits.
MatchLong(b, orders, c, cfg) ==
    IF orders = <<>> THEN b
    ELSE Bind(IF ExecutesLong(Head(orders), c) THEN FillLong(b, Head(orders), c, cfg) ELSE b,
              LAMBDA b1 : MatchLong(b1, Tail(orders), c, cfg))

RECURSIVE MatchShort(_, _, _, _)
\* for order in self.open_orders.short, over the orders the loop visits.
MatchShort(b, orders, c, cfg) ==
    IF orders = <<>> THEN b
    ELSE Bind(IF ExecutesShort(Head(orders), c) THEN FillShort(b, Head(orders), c, cfg) ELSE b,
              LAMBDA b1 : MatchShort(b1, Tail(orders), c, cfg))

\* orders_to_remove of a matching loop: the executing orders filled in full.
FullyFilled(orders, c, side) ==
    SelectSeq(orders, LAMBDA order :
        /\ IF side = LONG THEN ExecutesLong(order, c) ELSE ExecutesShort(order, c)
        /\ c.volume >= order.qty)

\* Arrival tested with < in place of <=.
ArrivedLate(order, ts, cfg) == order.timestamp + cfg.latency < ts

\* Whether a pending order has arrived at the exchange.
Arrived(order, ts, cfg) == order.timestamp + cfg.latency <= ts

\* The margin check against the balance alone.
AdmittedOnBalance(b, order, c, cfg) == RLt(RI(order.qty * order.price), b.balance)

\* Whether an arrived pending order passes the margin check.
Admitted(b, order, c, cfg) ==
    RLt(RI(order.qty * order.price), AvailableMargin(b, c.close, cfg))

RECURSIVE Admit(_, _, _, _, _)
\* for order in self.orders_to_execute.long / .short
Admit(b, orders, c, ts, cfg) ==
    IF orders = <<>> THEN b
    ELSE Bind(IF Arrived(Head(orders), ts, cfg) /\ Admitted(b, Head(orders), c, cfg)
              THEN handle_order_update(b, Head(orders)) ELSE b,
              LAMBDA b1 : Admit(b1, Tail(orders), c, ts, cfg))

\* orders_to_remove of an admission loop.
ArrivedOrders(orders, ts, cfg) == SelectSeq(orders, LAMBDA order : Arrived(order, ts, cfg))

\* The long-book loop and the delete_long that follows it.
MatchLongBook(b, c, cfg) ==
    Bind(MatchLong(b, b.open_orders.long, c, cfg), LAMBDA b1 :
        [b1 EXCEPT !.open_orders = delete_long(@, FullyFilled(b.open_orders.long, c, LONG))])

\* The short-book loop and the delete_long that follows it.
MatchShortBook(b, c, cfg) ==
    Bind(MatchShort(b, b.open_orders.short, c, cfg), LAMBDA b1 :
        [b1 EXCEPT !.open_orders = delete_long(@, FullyFilled(b.open_orders.short, c, SHORT))])

\* The admission loop of the long queue and its delete_long.
AdmitLongQueue(b, c, ts, cfg) ==
    Bind(Admit(b, b.orders_to_execute.long, c, ts, cfg), LAMBDA b1 :
        [b1 EXCEPT !.orders_to_execute =
                       delete_long(@, ArrivedOrders(b.orders_to_execute.long, ts, cfg))])

\* The admission loop of the short queue and its delete_short.
AdmitShortQueue(b, c, ts, cfg) ==
    Bind(Admit(b, b.orders_to_execute.short, c, ts, cfg), LAMBDA b1 :
        [b1 EXCEPT !.orders_to_execute =
                       delete_short(@, ArrivedOrders(b.orders_to_execute.short, ts, cfg))])

\* The step with the admission loops run before the matching loops.
execute_exchange_logic_admitting_first(b, c, ts, cfg) ==
    IF Liquidated(b, c, cfg) THEN [cont |-> FALSE, bot |-> Liquidate(b, c, ts)]
    ELSE
    Bind(AdmitLongQueue(b, c, ts, cfg), LAMBDA b2 :
    Bind(AdmitShortQueue(b2, c, ts, cfg), LAMBDA b4 :
    Bind(MatchLongBook(b4, c, cfg), LAMBDA b6 :
        [cont |-> TRUE, bot |-> MatchShortBook(b6, c, cfg)])))

\* BacktestBot.execute_exchange_logic on the bot state b: the result and the
\* bot state it leaves.
execute_exchange_logic(b, c, ts, cfg) ==
    IF Liquidated(b, c, cfg) THEN [cont |-> FALSE, bot |-> Liquidate(b, c, ts)]
    ELSE
    Bind(MatchLongBook(b, c, cfg), LAMBDA b2 :
    Bind(MatchShortBook(b2, c, cfg), LAMBDA b4 :
    Bind(AdmitLongQueue(b4, c, ts, cfg), LAMBDA b6 :
        [cont |-> TRUE, bot |-> AdmitShortQueue(b6, c, ts, cfg)])))

\* ------------------------------------------------------------------ driver

\* Adds the orders to the ones waiting for the exchange: stamps timestamp and
\* action NEW and files each order under its position side.
create_orders(b, orders_to_create, ts) ==
    LET stamped == [k \in 1..Len(orders_to_create) |->
                       [orders_to_create[k] EXCEPT !.timestamp = ts, !.action = NEW_ACTION]]
        long_add == SelectSeq(stamped, LAMBDA order : order.position_side = LONG)
        short_add == SelectSeq(stamped, LAMBDA order : order.position_side = SHORT)
    IN  [b EXCEPT !.orders_to_execute = add_short(add_long(@, long_add), short_add)]

\* The same for cancellations: stamps timestamp and action CANCELED.
cancel_orders(b, orders_to_cancel, ts) ==
    LET stamped == [k \in 1..Len(orders_to_cancel) |->
                       [orders_to_cancel[k] EXCEPT !.timestamp = ts, !.action = CANCELED]]
        long_delete == SelectSeq(stamped, LAMBDA order : order.position_side = LONG)
        short_delete == SelectSeq(stamped, LAMBDA order : order.position_side = SHORT)
    IN  [b EXCEPT !.orders_to_execute = add_short(add_long(@, long_delete), short_delete)]

\* ------------------------------------------------------------------- state

VARIABLES
    config,             \* BacktestConfig: leverage, maker_fee, taker_fee, latency, call_interval
    bot,                \* balance, long, short, open_orders, orders_to_execute, and the
                        \* events the step emitted (while pc is stepped or halted)
    current_timestamp,  \* self.current_timestamp
    row,                \* rows of self.data processed so far
    last_update,        \* start_websocket: last_update
    price_list,         \* start_websocket: price_list (the candles' timestamps)
    pc,                 \* "loop", "stepped" (execute_exchange_logic has returned), "decide"
                        \* (inside strategy.decide), "halted" (returned on liquidation)
    last_candle,        \* start_websocket: candle, while pc is stepped or halted
    cont,               \* the result of the last execute_exchange_logic
    entry,              \* the bot as that execute_exchange_logic found it, while pc is
                        \* stepped or halted
    next_id,            \* the next client id the strategy uses
    cancels,            \* cancellations the strategy has asked for
    history,            \* every order update emitted so far: <<order_id, position_side, action>>
    windows             \* every price_list passed to decide so far, in the order of the calls

vars == <<config, bot, current_timestamp, row, last_update, price_list, pc, last_candle,
          cont, entry, next_id, cancels, history, windows>>

\* No entry state: outside a step.
NoEntry == <<>>

\* Timestamp of row k (1-based) of self.data.
Timestamp(k) == k

\* The candles of the data: low <= open, close <= high.
Candles ==
    {cd \in {Candle(o, h, l, c, v) : o \in CandlePrices, h \in CandlePrices,
                                     l \in CandlePrices, c \in CandlePrices,
                                     v \in CandleVolumes} :
        cd.low = cd.open /\ cd.open <= cd.high /\ cd.low <= cd.close /\ cd.close <= cd.high}

\* Type and side of the strategy's orders on a position side: market and limit
\* orders buy or sell, take-profit and stop-loss orders close the position.
Kinds(ps) ==
    {<<MARKET, BUY>>, <<MARKET, SELL>>, <<LIMIT, BUY>>, <<LIMIT, SELL>>,
     <<TP, IF ps = LONG THEN SELL ELSE BUY>>, <<SL, IF ps = LONG THEN SELL ELSE BUY>>}

\* The orders a strategy hands to create_orders, before stamping.
Intents(id) ==
    UNION {{Order(id, p, q, k[1], k[2], 0, NEW_ACTION, ps) :
               p \in OrderPrices, q \in OrderQtys, k \in Kinds(ps)} : ps \in {LONG, SHORT}}

\* The order updates among the events, as history entries.
Emitted(events) ==
    LET upd == SelectSeq(events, LAMBDA e : e.kind = "order")
    IN  [k \in 1..Len(upd) |->
            <<upd[k].order.order_id, upd[k].order.position_side, upd[k].order.action>>]

\* BacktestBot.__init__ and the first two lines of start_websocket, for the
\* configuration cfg and the starting balance bal.
Start(cfg, bal) ==
    /\ config = cfg
    /\ bot = [balance |-> RI(bal), long |-> Position(0, RZero, LONG),
              short |-> Position(0, RZero, SHORT), open_orders |-> OrderList,
              orders_to_execute |-> OrderList, events |-> <<>>]
    /\ current_timestamp = 0
    /\ row = 0
    /\ last_update = Timestamp(1)
    /\ price_list = empty_order_list
    /\ pc = "loop"
    /\ last_candle = NoCandle
    /\ cont = TRUE
    /\ entry = NoEntry
    /\ next_id = 1
    /\ cancels = 0
    /\ history = <<>>
    /\ windows = <<>>

\* The configurations with a latency out of lats.
Configs(lats) ==
    [leverage : Leverages, maker_fee : MakerFees, taker_fee : TakerFees,
     latency : lats, call_interval : CallIntervals]

Init == \E cfg \in Configs(Latencies), bal \in StartBalances : Start(cfg, bal)

\* The same with the slow connections.
InitSlow == \E cfg \in Configs(SlowLatencies), bal \in StartBalances : Start(cfg, bal)

\* The runs over either connection.
InitAny ==
    \E cfg \in Configs(Latencies \cup SlowLatencies), bal \in StartBalances : Start(cfg, bal)

\* The same with a strategy that asks to be called less often.
InitPaced ==
    \E cfg \in [leverage : Leverages, maker_fee : MakerFees, taker_fee : TakerFees,
                 latency : Latencies, call_interval : CallIntervals \cup SlowCallIntervals],
       bal \in StartBalances : Start(cfg, bal)

\* The same with a maker fee given as a negative rate, on a slow connection.
InitRebate ==
    \E cfg \in [leverage : Leverages, maker_fee : NegativeMakerFees, taker_fee : TakerFees,
                 latency : SlowLatencies, call_interval : CallIntervals],
       bal \in StartBalances : Start(cfg, bal)

\* The head of an iteration of the loop of start_websocket: the next row
\* becomes the current candle and execute_exchange_logic runs on it.
Step ==
    /\ pc = "loop"
    /\ row < MaxCandles
    /\ \E c \in Candles :
        \E r \in {execute_exchange_logic(bot, c, Timestamp(row + 1), config)} :
            /\ current_timestamp' = Timestamp(row + 1)
            /\ row' = row + 1
            /\ last_candle' = c
            /\ bot' = r.bot
            /\ cont' = r.cont
            /\ entry' = bot
            /\ history' = history \o Emitted(r.bot.events)
            /\ pc' = "stepped"
    /\ UNCHANGED <<config, last_update, price_list, next_id, cancels, windows>>

\* Whether the strategy is called once the step at timestamp ts has returned:
\* current_timestamp - last_update >= call_interval (in the unit of the
\* timestamps).
DueAfter(ts, last, cfg) == ts - last > cfg.call_interval

Due(ts, last, cfg) == ts - last >= cfg.call_interval

\* The rest of the iteration: return when the account cannot continue, else
\* append the candle and, when the call interval has passed, call decide.
\* The candle and the events of the step are dead from here on.
AfterStep ==
    /\ pc = "stepped"
    /\ LET due == Due(current_timestamp, last_update, config)
       IN  IF ~cont
           THEN /\ pc' = "halted"
                /\ UNCHANGED <<bot, last_candle, entry, price_list, last_update, windows>>
           ELSE /\ price_list' = Append(price_list, current_timestamp)
                /\ last_update' = IF due THEN current_timestamp ELSE last_update
                /\ pc' = IF due THEN "decide" ELSE "loop"
                /\ windows' = IF due THEN Append(windows, price_list') ELSE windows
                /\ last_candle' = NoCandle
                /\ entry' = NoEntry
                /\ bot' = [bot EXCEPT !.events = <<>>]
    /\ UNCHANGED <<config, current_timestamp, row, cont, next_id, cancels, history>>

\* The strategy, inside decide, calls create_orders (while an order can still
\* arrive at the exchange before the last row of the data).
CreateOrders ==
    /\ pc = "decide"
    /\ row + config.latency < MaxCandles
    /\ \E n \in 1..MaxBatch :
        /\ next_id + n - 1 <= MaxOrders
        /\ \E orders_to_create \in [1..n -> UNION {Intents(k) : k \in next_id..(next_id + n - 1)}] :
            /\ \A k \in 1..n : orders_to_create[k].order_id = next_id + k - 1
            /\ bot' = create_orders(bot, orders_to_create, current_timestamp)
            /\ next_id' = next_id + n
    /\ UNCHANGED <<config, current_timestamp, row, last_update, price_list, pc, last_candle,
                   cont, entry, cancels, history, windows>>

\* The strategy, inside decide, calls cancel_orders with open orders that have
\* no cancellation under way.
CancelOrders ==
    /\ pc = "decide"
    /\ row < MaxCandles
    /\ LET open == bot.open_orders.long \o bot.open_orders.short
           pending == bot.orders_to_execute.long \o bot.orders_to_execute.short
           free == {k \in 1..Len(open) :
                       \A j \in 1..Len(pending) : ~SameOrder(open[k], pending[j])}
       IN  \E n \in 1..MaxBatch :
               /\ cancels + n <= MaxCancels
               /\ cancels' = cancels + n
               /\ \E pick \in [1..n -> free] :
                   /\ \A i, j \in 1..n : i < j => pick[i] < pick[j]
                   /\ bot' = cancel_orders(bot, [k \in 1..n |-> open[pick[k]]],
                                           current_timestamp)
    /\ UNCHANGED <<config, current_timestamp, row, last_update, price_list, pc, last_candle,
                   cont, entry, next_id, history, windows>>

\* decide returns: price_list = empty_candle_list().
DecideReturn ==
    /\ pc = "decide"
    /\ pc' = "loop"
    /\ price_list' = <<>>
    /\ UNCHANGED <<config, bot, current_timestamp, row, last_update, last_candle, cont,
                   entry, next_id, cancels, history, windows>>

Next == Step \/ AfterStep \/ CreateOrders \/ CancelOrders \/ DecideReturn

Spec == Init /\ [][Next]_vars

\* The runs over a connection with a latency of more than one candle.
SpecSlow == InitSlow /\ [][Next]_vars

SpecAny == InitAny /\ [][Next]_vars

\* The runs of a strategy called after every candle or after every second one.
SpecPaced == InitPaced /\ [][Next]_vars

\* The runs with a negative maker fee.
SpecRebate == InitRebate /\ [][Next]_vars

\* -------------------------------------------------------------- observation

\* execute_exchange_logic has just returned: bot is the state it left, entry
\* the state it found, last_candle its candle and bot.events what it emitted.
Returned == pc = "stepped"
Continued == Returned /\ cont
Halted == Returned /\ ~cont

\* Balance and positions of a bot state or of an account update.
Account(x) == [balance |-> x.balance, long |-> x.long, short |-> x.short]

\* The account in force when event i of the step was emitted: the last account
\* update before it, or the account the step found.
AccountBefore(i) ==
    LET prior == {j \in 1..(i - 1) : bot.events[j].kind = "account"}
    IN  IF prior = {} THEN Account(entry)
        ELSE Account(bot.events[CHOOSE j \in prior : \A k \in prior : k <= j])

\* The positions of the order updates among the step's events.
OrderUpdates == {i \in 1..Len(bot.events) : bot.events[i].kind = "order"}

\* ------------------------------------------------------------------ claims

\* C1, as stated: at the start of every candle step the balance is >= 0, and
\* no step ends with a balance <= 0 and a continue result.
C1_BalanceNeverNegative ==
    /\ (pc = "loop" /\ row < MaxCandles) => RLe(RZero, bot.balance)
    /\ Continued => RLt(RZero, bot.balance)

\* C2, as stated: at the end of every step that returns continue the available
\* margin of the resulting balance and positions at the candle's close is >= 0.
C2_MarginAtEndOfStep ==
    Continued => RLe(RZero, AvailableMargin(bot, last_candle.close, config))

\* C2, amended: a step returns continue exactly when the available margin that
\* the balance and positions it found have at the candle's close is > 0; the
\* fills of the step move the margin without any further test.
C2_MarginAtStartOfStep ==
    Returned => (cont <=> RLt(RZero, AvailableMargin(entry, last_candle.close, config)))

\* A step that filled an order, returned continue and left a negative available
\* margin at its close.
C2_Witness ==
    /\ Continued
    /\ \E i \in OrderUpdates : bot.events[i].order.action \in {FILLED, PARTIALLY_FILLED}
    /\ RLt(AvailableMargin(bot, last_candle.close, config), RZero)

\* The synthetic orders among the step's events that liquidate the side ps.
LiquidationOrders(ps) ==
    {i \in OrderUpdates : /\ bot.events[i].order.action = LQ
                          /\ bot.events[i].order.position_side = ps}

\* Exactly one synthetic order for the position p on the side ps: CALCULATED,
\* LIQUIDATION, the position's size, the candle's close.
LiquidatedOnce(p, ps) ==
    /\ Cardinality(LiquidationOrders(ps)) = 1
    /\ \A i \in LiquidationOrders(ps) :
           /\ bot.events[i].order.type = CALCULATED
           /\ bot.events[i].order.qty = p.qty
           /\ bot.events[i].order.price = last_candle.close

\* C3, as stated: after a step that halts the balance is 0, both positions are
\* empty, and each side that held a position got exactly one synthetic
\* CALCULATED / LIQUIDATION order of the position's size at the candle's close.
C3_HaltResetsAccount ==
    Halted =>
        /\ RLe(AvailableMargin(entry, last_candle.close, config), RZero)
        /\ bot.balance = RZero
        /\ bot.long.qty = 0 /\ bot.long.price = RZero
        /\ bot.short.qty = 0 /\ bot.short.price = RZero
        /\ entry.long.qty # 0 => LiquidatedOnce(entry.long, LONG)
        /\ entry.short.qty # 0 => LiquidatedOnce(entry.short, SHORT)

\* The actions emitted so far for the order id on the side ps, in order.
ActionsOf(id, ps) ==
    LET own == SelectSeq(history, LAMBDA h : h[1] = id /\ h[2] = ps)
    IN  [k \in 1..Len(own) |-> own[k][3]]

\* NEW, then PARTIALLY_FILLED any number of times, then at most one of FILLED,
\* CANCELED and LIQUIDATION, and nothing after it.
ValidLifecycle(acts) ==
    \/ acts = <<>>
    \/ /\ acts[1] = NEW_ACTION
       /\ \A k \in 2..Len(acts) :
              /\ acts[k] \in {PARTIALLY_FILLED, FILLED, CANCELED, LQ}
              /\ k < Len(acts) => acts[k] = PARTIALLY_FILLED

\* C4, as stated: the updates emitted over a run for each order identity form
\* a path NEW -> (PARTIALLY_FILLED)* -> one of FILLED, CANCELED, LIQUIDATION.
C4_OrderLifecycle ==
    \A id \in 0..MaxOrders, ps \in {LONG, SHORT} : ValidLifecycle(ActionsOf(id, ps))

\* The orders of both sides of an OrderList, as a set.
OrdersIn(list) ==
    {list.long[k] : k \in 1..Len(list.long)} \cup {list.short[k] : k \in 1..Len(list.short)}

\* The step emitted the pending order, as it was queued, as an order update.
EmittedAsQueued(order) == \E i \in OrderUpdates : bot.events[i].order = order

\* C5: an order stamped by create_orders at t is admitted (its NEW update
\* emitted, the order put in the open book) by the first step whose timestamp
\* is >= t + latency when the margin check passes, and by no earlier step: it
\* waits in the queue until then, and it is never admitted by the step of the
\* candle during which it was submitted.
C5_AdmissionLatency ==
    Returned =>
        \A order \in {q \in OrdersIn(entry.orders_to_execute) : q.action = NEW_ACTION} :
            LET due == order.timestamp + config.latency
            IN  /\ order.timestamp < current_timestamp
                /\ current_timestamp <= due
                /\ current_timestamp < due =>
                       /\ ~EmittedAsQueued(order)
                       /\ order \in OrdersIn(bot.orders_to_execute)
                       /\ order \notin OrdersIn(bot.open_orders)
                /\ (current_timestamp = due /\ cont) =>
                       /\ order \notin OrdersIn(bot.orders_to_execute)
                       /\ RLt(RI(order.qty * order.price),
                              AvailableMargin(bot, last_candle.close, config))
                              => EmittedAsQueued(order) /\ order \in OrdersIn(bot.open_orders)

\* A step on a connection with a latency of two candles that admits an order
\* stamped two candles earlier, the order having waited through the step between.
C5_Witness ==
    /\ Continued
    /\ config.latency = 2
    /\ \E order \in OrdersIn(entry.orders_to_execute) :
           /\ order.action = NEW_ACTION
           /\ order.timestamp + 2 = current_timestamp
           /\ EmittedAsQueued(order)
           /\ order \in OrdersIn(bot.open_orders)

\* The order updates of the step with the action act.
UpdatesWith(act) == {i \in OrderUpdates : bot.events[i].order.action = act}

\* The open order, as the step found it, that the update o is about.
AsFound(o) == CHOOSE order \in OrdersIn(entry.open_orders) : SameOrder(order, o)

\* The size of the position on the side of the order o in the account a.
SizeOn(a, o) == IF o.position_side = LONG THEN a.long.qty ELSE a.short.qty

\* The signed change of the position size that a fill of qty by o stands for.
Signed(o, qty) == IF o.side = SELL THEN -qty ELSE qty

\* A cancellation of the order of update i is emitted later in the step.
CanceledAfter(i) ==
    \E j \in UpdatesWith(CANCELED) : j > i /\ SameOrder(bot.events[j].order, bot.events[i].order)

\* The partial fill emitted as event i: the order had more than the candle's
\* volume left, the update carries emitted_qty, the order stays open with the
\* volume taken off its quantity (until a cancellation takes it out), and the
\* account update that follows moves the position of that side by the volume.
PartialFill(i, emitted_qty) ==
    LET o == bot.events[i].order
        order == AsFound(o)
        left == [order EXCEPT !.qty = order.qty - last_candle.volume]
    IN  /\ \E q \in OrdersIn(entry.open_orders) : SameOrder(q, o)
        /\ last_candle.volume < order.qty
        /\ o.qty = emitted_qty
        /\ left \in OrdersIn(bot.open_orders) \/ CanceledAfter(i)
        /\ i + 1 \in 1..Len(bot.events) /\ bot.events[i + 1].kind = "account"
        /\ SizeOn(bot.events[i + 1], o)
               = SizeOn(AccountBefore(i), o) + Signed(o, last_candle.volume)

\* C6, as stated: the PARTIALLY_FILLED update carries the filled quantity
\* c.volume, the order stays open with order.qty - c.volume, and the position
\* on that side changes by c.volume.
C6_PartialFillCarriesVolume ==
    Continued => \A i \in UpdatesWith(PARTIALLY_FILLED) : PartialFill(i, last_candle.volume)

\* C6, amended: the PARTIALLY_FILLED update carries the quantity that is left,
\* order.qty - c.volume, which is also the quantity the order stays open with;
\* the position on that side changes by c.volume.
C6_PartialFillCarriesRest ==
    Continued =>
        \A i \in UpdatesWith(PARTIALLY_FILLED) :
            PartialFill(i, AsFound(bot.events[i].order).qty - last_candle.volume)

\* A partial fill of volume 1 of an order of 3: the update carries 2, the order
\* stays open with 2 and the position has grown to 1.
C6_Witness ==
    /\ Continued
    /\ last_candle.volume = 1
    /\ \E i \in UpdatesWith(PARTIALLY_FILLED) :
           /\ AsFound(bot.events[i].order).qty = 3
           /\ bot.events[i].order.qty = 2
           /\ [AsFound(bot.events[i].order) EXCEPT !.qty = 2] \in OrdersIn(bot.open_orders)
           /\ SizeOn(AccountBefore(i), bot.events[i].order) = 0
           /\ SizeOn(bot.events[i + 1], bot.events[i].order) = 1

\* The fills in full among the step's events (the synthetic liquidation orders
\* are no fills).
FullFills == UpdatesWith(FILLED)

\* The price an executing order fills at: the candle's average for a market
\* order, the order's own price for the others.
FillPrice(order) == IF order.type = MARKET THEN MarketPrice(last_candle) ELSE order.price

\* The fee rate of an order: taker for market orders, maker for the others.
FeeRate(order) == IF order.type = MARKET THEN config.taker_fee ELSE config.maker_fee

\* The volume-weighted average price of qty at price added to the position p.
VWAP(p, qty, price) ==
    RDiv(RAdd(RMul(RI(p.qty), p.price), RI(qty * price)), RI(p.qty + qty))

\* C7, as stated: on a full fill exactly one update is emitted for the order in
\* the step, FILLED with the order's full quantity and its fill price; a BUY on
\* the long book adds that quantity to the long position at the
\* volume-weighted average price, realizes no pnl and changes the balance only
\* by the fee on qty * price.
C7_FullFill ==
    Continued =>
        \A i \in FullFills :
            LET o == bot.events[i].order
                order == AsFound(o)
                before == AccountBefore(i)
                after == bot.events[i + 1]
            IN  /\ last_candle.volume >= order.qty
                /\ Cardinality({j \in OrderUpdates : SameOrder(bot.events[j].order, o)}) = 1
                /\ o = [order EXCEPT !.action = FILLED, !.price = FillPrice(order)]
                /\ after.kind = "account"
                /\ (o.position_side = LONG /\ o.side = BUY) =>
                       /\ after.long.qty = before.long.qty + order.qty
                       /\ after.long.qty # 0
                       /\ after.long.price = VWAP(before.long, order.qty, o.price)
                       /\ after.short = before.short
                       /\ after.balance =
                              RSub(before.balance, RMul(RI(order.qty * o.price), FeeRate(order)))

\* The fills of SELL orders of the types tps on the long book among the events.
LongSells(tps) ==
    {i \in UpdatesWith(FILLED) \cup UpdatesWith(PARTIALLY_FILLED) :
        /\ bot.events[i].order.position_side = LONG
        /\ bot.events[i].order.side = SELL
        /\ bot.events[i].order.type \in tps}

\* The quantity the fill emitted as event i takes: the order's quantity on a
\* full fill, the candle's volume on a partial one.
Filled(i) ==
    IF bot.events[i].order.action = FILLED THEN AsFound(bot.events[i].order).qty
    ELSE last_candle.volume

\* C8: when a LIMIT SELL or TP order of the long book fills, the balance grows
\* by the realized pnl (fill price - long average price) * fill_qty and by the
\* (negative) fee of the update, the long position shrinks by fill_qty, and a
\* fill of the whole position leaves the long position empty (qty 0, price 0).
C8_LongSellRealizesPnl ==
    Continued =>
        \A i \in LongSells({LIMIT, TP}) :
            LET o == bot.events[i].order
                before == AccountBefore(i)
                after == bot.events[i + 1]
                pnl == RMul(RSub(RI(o.price), before.long.price), RI(Filled(i)))
                fee == RNeg(RMul(RI(o.qty * o.price), FeeRate(o)))
            IN  /\ after.kind = "account"
                /\ o.price = AsFound(o).price
                /\ after.balance = RAdd(RAdd(before.balance, fee), pnl)
                /\ after.long.qty = before.long.qty - Filled(i)
                /\ Filled(i) = before.long.qty => after.long.qty = 0 /\ after.long.price = RZero
                /\ after.short = before.short

\* A TP or LIMIT SELL that closes a whole long position of 3 above its average
\* price: the pnl is positive and the position is left empty.
C8_Witness ==
    /\ Continued
    /\ \E i \in LongSells({LIMIT, TP}) :
           /\ AccountBefore(i).long.qty = 3
           /\ Filled(i) = 3
           /\ RLt(AccountBefore(i).long.price, RI(bot.events[i].order.price))
           /\ bot.events[i + 1].long = Position(0, RZero, LONG)
           /\ RLt(AccountBefore(i).balance, bot.events[i + 1].balance)

\* A position is sound: its size is not negative and is 0 exactly when its
\* average price is 0.
Sound(p) == p.qty >= 0 /\ (p.qty = 0 <=> p.price = RZero)

\* C9, as stated: after every candle step, whatever was filled (a reducing
\* order larger than the position included), each side's position has
\* qty >= 0 and qty = 0 exactly when avg_price = 0.
C9_PositionsSound == Returned => Sound(bot.long) /\ Sound(bot.short)

\* The fills of the order among the step's events.
FillsOf(order) ==
    {i \in UpdatesWith(FILLED) \cup UpdatesWith(PARTIALLY_FILLED) :
        SameOrder(bot.events[i].order, order)}

\* The trigger of a LIMIT, SL or TP order: the candle's low under the price or
\* its high over it, by book, type and side.
Triggered(order) ==
    LET under == last_candle.low < order.price
        over == last_candle.high > order.price
        buy_or_sl == (order.type = LIMIT /\ order.side = BUY) \/ order.type = SL
        sell_or_tp == (order.type = LIMIT /\ order.side = SELL) \/ order.type = TP
    IN  IF order.position_side = LONG
        THEN (buy_or_sl /\ under) \/ (sell_or_tp /\ over)
        ELSE (buy_or_sl /\ over) \/ (sell_or_tp /\ under)

\* C10: a LIMIT, SL or TP order of the open book executes in a step exactly
\* when its trigger holds, with strict inequalities on both books; one whose
\* trigger does not hold stays open unchanged (until a cancellation of it is
\* admitted), gets no fill update, and every account update of the step
\* follows the fill update of an executing order.
C10_StrictTriggers ==
    Continued =>
        /\ \A order \in {q \in OrdersIn(entry.open_orders) : q.type # MARKET} :
               /\ FillsOf(order) # {} <=> Triggered(order)
               /\ ~Triggered(order) =>
                      /\ \A i \in OrderUpdates :
                             SameOrder(bot.events[i].order, order)
                                 => bot.events[i].order.action = CANCELED
                      /\ \/ order \in OrdersIn(bot.open_orders)
                         \/ \E i \in UpdatesWith(CANCELED) : SameOrder(bot.events[i].order, order)
        /\ \A j \in 1..Len(bot.events) :
               bot.events[j].kind = "account" =>
                   /\ j - 1 \in UpdatesWith(FILLED) \cup UpdatesWith(PARTIALLY_FILLED)
                   /\ LET order == AsFound(bot.events[j - 1].order)
                      IN  order.type = MARKET \/ Triggered(order)
        /\ (\A order \in OrdersIn(entry.open_orders) : order.type # MARKET /\ ~Triggered(order))
               => Account(bot) = Account(entry)

\* A step whose candle touches the price of an open order on each book without
\* crossing it (low = price on the long book, high = price on the short book):
\* neither order executes, both stay open as they were.
C10_Witness ==
    /\ Continued
    /\ \E order \in OrdersIn(entry.open_orders) :
           /\ order.position_side = LONG /\ order.type = LIMIT /\ order.side = BUY
           /\ last_candle.low = order.price
           /\ FillsOf(order) = {} /\ order \in OrdersIn(bot.open_orders)
    /\ \E order \in OrdersIn(entry.open_orders) :
           /\ order.position_side = SHORT /\ order.type = SL
           /\ last_candle.high = order.price
           /\ FillsOf(order) = {} /\ order \in OrdersIn(bot.open_orders)
    /\ Account(bot) = Account(entry)

\* The MARKET orders of the open book as the step found it.
MarketOrders == {q \in OrdersIn(entry.open_orders) : q.type = MARKET}

\* C11: an open MARKET order executes in every step that gets to the matching
\* loops, the first one after its admission included, whatever its own price
\* field and the candle's low and high; it fills at
\* round_down((open + high + low + close) / 4, price_step).
C11_MarketAlwaysExecutes ==
    Continued =>
        \A order \in MarketOrders :
            /\ Cardinality(FillsOf(order)) = 1
            /\ \A i \in FillsOf(order) :
                   /\ 4 * bot.events[i].order.price
                          <= last_candle.open + last_candle.high + last_candle.low
                                 + last_candle.close
                   /\ last_candle.open + last_candle.high + last_candle.low + last_candle.close
                          < 4 * (bot.events[i].order.price + PriceStep)
                   /\ bot.events[i].order.price % PriceStep = 0

\* A MARKET order with price field 2, admitted by the step before, filled at 1
\* by a candle that stays at 1, 2 (open 1, high 2, low 1, close 2: average 1.5).
C11_Witness ==
    /\ Continued
    /\ last_candle.open = 1 /\ last_candle.high = 2 /\ last_candle.close = 2
    /\ \E order \in MarketOrders :
           /\ order.price = 2
           /\ order.timestamp + config.latency = current_timestamp - 1
           /\ \E i \in FillsOf(order) : bot.events[i].order.price = 1

\* The pending queue as the step found it.
Pending == OrdersIn(entry.orders_to_execute)

\* The latency of a pending order has elapsed at the current step.
Elapsed(order) == order.timestamp + config.latency <= current_timestamp

\* The margin check of the admission phase: the account is the one the
\* matching loops left, which the admissions do not change.
PassesMargin(order) ==
    RLt(RI(order.qty * order.price), AvailableMargin(bot, last_candle.close, config))

\* C12: in the admission phase every pending order whose latency has elapsed
\* leaves the queue; its update is emitted exactly when order.qty * order.price
\* is strictly below the available margin at the candle's close; a dropped
\* order causes no update and changes neither the account nor the open book.
\* Pending orders whose latency has not elapsed stay in the queue.
C12_AdmissionOrDrop ==
    Continued =>
        /\ \A order \in Pending :
               /\ Elapsed(order) =>
                      /\ order \notin OrdersIn(bot.orders_to_execute)
                      /\ EmittedAsQueued(order) <=> PassesMargin(order)
               /\ (Elapsed(order) /\ ~PassesMargin(order) /\ order.action = NEW_ACTION) =>
                      /\ \A i \in OrderUpdates : ~SameOrder(bot.events[i].order, order)
                      /\ \A q \in OrdersIn(bot.open_orders) : ~SameOrder(q, order)
               /\ (Elapsed(order) /\ ~PassesMargin(order) /\ order.action = CANCELED) =>
                      \A q \in OrdersIn(entry.open_orders) :
                          (SameOrder(q, order) /\ FillsOf(q) \cap UpdatesWith(FILLED) = {})
                              => \E r \in OrdersIn(bot.open_orders) : SameOrder(r, q)
               /\ ~Elapsed(order) =>
                      /\ order \in OrdersIn(bot.orders_to_execute)
                      /\ ~EmittedAsQueued(order)
        /\ Account(bot) = AccountBefore(Len(bot.events) + 1)
        /\ OrdersIn(bot.orders_to_execute) \subseteq Pending

\* A step that drops an arrived order for want of margin (a position is held)
\* and emits nothing for it.
C12_Witness ==
    /\ Continued
    /\ \E order \in Pending :
           /\ order.action = NEW_ACTION
           /\ Elapsed(order)
           /\ ~PassesMargin(order)
           /\ RLt(RI(order.qty * order.price), bot.balance)
           /\ order \notin OrdersIn(bot.orders_to_execute)
           /\ \A q \in OrdersIn(bot.open_orders) : ~SameOrder(q, order)

\* ---------------------------------------------------------------------------
\* C13: the calls of the strategy
\* ---------------------------------------------------------------------------

\* The timestamps at which decide was called: the last candle of each window.
CallTimes == {windows[k][Len(windows[k])] : k \in 1..Len(windows)}

\* last_update as the iteration at timestamp ts found it: the latest call
\* before ts, and the first candle's timestamp when there was none.
LastUpdateAt(ts) ==
    LET before == {t \in CallTimes : t < ts}
    IN  IF before = {} THEN Timestamp(1)
        ELSE CHOOSE t \in before : \A u \in before : u <= t

\* The timestamps of the steps that did not halt and after which the loop has
\* made up its mind about calling the strategy.
Decided ==
    {k \in 1..current_timestamp : k < current_timestamp \/ pc \in {"loop", "decide"}}

RECURSIVE Flatten(_)
Flatten(seqs) == IF seqs = <<>> THEN <<>> ELSE Head(seqs) \o Flatten(Tail(seqs))

\* C13: the strategy is called after a step that did not halt exactly when
\* current_timestamp - last_update >= call_interval, last_update being the
\* first candle's timestamp until the first call and the timestamp of the
\* latest call afterwards; and the windows passed to the successive calls,
\* laid end to end, are the candles processed from the first one to the one
\* of the latest call, each once and in the order of their timestamps.
C13_DecideCalls ==
    /\ \A ts \in Decided :
           ts \in CallTimes <=> ts - LastUpdateAt(ts) >= config.call_interval
    /\ \A k \in 1..Len(windows) : windows[k] # <<>>
    /\ LET passed == Flatten(windows)
       IN  /\ \A k \in 1..Len(passed) : passed[k] = Timestamp(k)
           /\ Len(windows) > 0 => passed[Len(passed)] = last_update
           /\ pc = "decide" => Len(windows) > 0 /\ windows[Len(windows)] = price_list

\* A strategy called after every second candle has been called twice, first
\* with three candles and then with two.
C13_Witness ==
    /\ config.call_interval = 2
    /\ pc = "decide"
    /\ Len(windows) = 2
    /\ Len(windows[1]) = 3
    /\ Len(windows[2]) = 2

\* ---------------------------------------------------------------------------
\* C14: filled orders leave the open book
\* ---------------------------------------------------------------------------

\* The places of the history at which the order got a FILLED update.
FilledAt(order_id, ps) == {k \in 1..Len(history) : history[k] = <<order_id, ps, FILLED>>}

\* C14: once a step has returned, no order with a FILLED update is in the open
\* book, long or short, and no order is filled, in part or in full, after its
\* FILLED update.
C14_FilledOrdersLeaveBook ==
    /\ \A order \in OrdersIn(bot.open_orders) :
           FilledAt(order.order_id, order.position_side) = {}
    /\ \A id \in 1..MaxOrders, ps \in {LONG, SHORT} :
           \A k \in FilledAt(id, ps) :
               \A j \in (k + 1)..Len(history) :
                   history[j] \notin {<<id, ps, PARTIALLY_FILLED>>, <<id, ps, FILLED>>}

\* An order of the short book was filled in an earlier step, and a later step
\* whose candle would trigger it again has returned without an update for it.
C14_Witness ==
    /\ Continued
    /\ \E id \in 1..MaxOrders :
           /\ FilledAt(id, SHORT) # {}
           /\ \A i \in OrderUpdates : bot.events[i].order.order_id # id
           /\ last_candle.low < 2
           /\ last_candle.high > 2
           /\ last_candle.volume > 0

\* ---------------------------------------------------------------------------
\* C15: the sides of the short book
\* ---------------------------------------------------------------------------

\* The FILLED updates of the step for orders of the short book with the side.
ShortFills(side) ==
    {i \in FullFills : /\ bot.events[i].order.position_side = SHORT
                       /\ bot.events[i].order.side = side}

\* C15, as stated: on the short book a filled SELL adds its quantity to the
\* short position at the volume-weighted average price and realizes no pnl
\* (the balance moves by the fee alone), and a filled BUY takes its quantity
\* off the short position and realizes (short average price - fill price) *
\* fill_qty.
C15_ShortBookSides ==
    Continued =>
        /\ \A i \in ShortFills(SELL) :
               LET o == bot.events[i].order
                   before == AccountBefore(i)
                   after == bot.events[i + 1]
                   fee == RNeg(RMul(RI(o.qty * o.price), FeeRate(o)))
               IN  /\ after.short.qty = before.short.qty + o.qty
                   /\ after.balance = RAdd(before.balance, fee)
                   /\ after.short.qty # 0 =>
                          after.short.price = VWAP(before.short, o.qty, o.price)
        /\ \A i \in ShortFills(BUY) :
               LET o == bot.events[i].order
                   before == AccountBefore(i)
                   after == bot.events[i + 1]
                   fee == RNeg(RMul(RI(o.qty * o.price), FeeRate(o)))
                   pnl == RMul(RSub(before.short.price, RI(o.price)), RI(o.qty))
               IN  /\ after.short.qty = before.short.qty - o.qty
                   /\ after.balance = RAdd(RAdd(before.balance, fee), pnl)

\* What the short-book loop does with the two sides: a filled SELL takes its
\* quantity off the short position and realizes the short pnl, a filled BUY
\* adds its quantity and realizes nothing.
C15_ShortBookAsLongBook ==
    Continued =>
        /\ \A i \in ShortFills(BUY) :
               LET o == bot.events[i].order
                   before == AccountBefore(i)
                   after == bot.events[i + 1]
                   fee == RNeg(RMul(RI(o.qty * o.price), FeeRate(o)))
               IN  /\ after.short.qty = before.short.qty + o.qty
                   /\ after.balance = RAdd(before.balance, fee)
        /\ \A i \in ShortFills(SELL) :
               LET o == bot.events[i].order
                   before == AccountBefore(i)
                   after == bot.events[i + 1]
                   fee == RNeg(RMul(RI(o.qty * o.price), FeeRate(o)))
                   pnl == RMul(RSub(before.short.price, RI(o.price)), RI(o.qty))
               IN  /\ after.short.qty = before.short.qty - o.qty
                   /\ after.balance = RAdd(RAdd(before.balance, fee), pnl)

\* ---------------------------------------------------------------------------
\* C16: the sides of the two positions
\* ---------------------------------------------------------------------------

\* C16, as stated: the long slot of the account holds a position with
\* position_side LONG and the short slot one with position_side SHORT, in
\* every state and so after every fill on the short book.
C16_SlotSides ==
    /\ bot.long.position_side = LONG
    /\ bot.short.position_side = SHORT

\* ---------------------------------------------------------------------------
\* C17: cancellations and the margin check
\* ---------------------------------------------------------------------------

\* The cancellations in the queue the step found whose latency has elapsed.
ArrivedCancels == {order \in Pending : order.action = CANCELED /\ Elapsed(order)}

\* C17, as stated: a cancellation whose latency has elapsed takes its order
\* out of the open book whatever the available margin is: after the step the
\* order is not open.
C17_CancelsIgnoreMargin ==
    Continued =>
        \A order \in ArrivedCancels :
            \A q \in OrdersIn(bot.open_orders) : ~SameOrder(q, order)

\* ---------------------------------------------------------------------------
\* C18: the sign of the fee
\* ---------------------------------------------------------------------------

\* The fills of the step: the FILLED and PARTIALLY_FILLED updates.
Fills == UpdatesWith(FILLED) \cup UpdatesWith(PARTIALLY_FILLED)

\* The pnl the fill emitted as event i realizes: that of the book's side for a
\* SELL, nothing for the other orders.
RealizedPnl(i) ==
    LET o == bot.events[i].order
        before == AccountBefore(i)
    IN  IF o.side # SELL THEN RZero
        ELSE IF o.position_side = LONG
        THEN RMul(RSub(RI(o.price), before.long.price), RI(Filled(i)))
        ELSE RMul(RSub(before.short.price, RI(o.price)), RI(Filled(i)))

\* The fee of the fill emitted as event i: what its account update adds to the
\* balance beyond the realized pnl.
FeeApplied(i) ==
    RSub(RSub(bot.events[i + 1].balance, AccountBefore(i).balance), RealizedPnl(i))

\* C18, as stated: the fee a fill applies to the balance is never positive,
\* whatever the sign of the configured maker_fee and taker_fee.
C18_FeeNeverPositive ==
    Continued => \A i \in Fills : RLe(FeeApplied(i), RZero)

\* ---------------------------------------------------------------------------
\* C19: the order of the phases of a step
\* ---------------------------------------------------------------------------

\* The phase that emits the order update o: 1 the liquidation check, 2 the
\* long-book matching, 3 the short-book matching, 4 and 5 the admission of the
\* long and of the short queue.
PhaseOf(o) ==
    IF o.action = LQ THEN 1
    ELSE IF o.action \in {FILLED, PARTIALLY_FILLED}
    THEN (IF o.position_side = LONG THEN 2 ELSE 3)
    ELSE (IF o.position_side = LONG THEN 4 ELSE 5)

\* C19: the order updates of a step come in the order of the phases
\* liquidation check, long-book matching, short-book matching, admission; a
\* step that halts emits liquidations alone and a step that continues none;
\* an order admitted in a step has no fill in that step; and an order is
\* filled only by a candle whose timestamp is not earlier than the order's
\* submission timestamp + latency.
C19_PhaseOrder ==
    Returned =>
        /\ \A i, j \in OrderUpdates :
               i < j => PhaseOf(bot.events[i].order) <= PhaseOf(bot.events[j].order)
        /\ \A i \in OrderUpdates : (PhaseOf(bot.events[i].order) = 1) <=> ~cont
        /\ \A i \in UpdatesWith(NEW_ACTION) : FillsOf(bot.events[i].order) = {}
        /\ \A i \in Fills :
               /\ bot.events[i].order.timestamp + config.latency <= current_timestamp
               /\ \E q \in OrdersIn(entry.open_orders) : SameOrder(q, bot.events[i].order)

\* A step fills an order and then admits a market order, which the candle
\* (volume > 0) would fill at once were it already in the book: it is not filled.
C19_Witness ==
    /\ Continued
    /\ last_candle.volume > 0
    /\ \E i \in Fills, j \in UpdatesWith(NEW_ACTION) :
           /\ i < j
           /\ bot.events[j].order.type = MARKET
           /\ FillsOf(bot.events[j].order) = {}
           /\ \E q \in OrdersIn(bot.open_orders) : SameOrder(q, bot.events[j].order)

\* ---------------------------------------------------------------------------
\* C20: order updates and account updates
\* ---------------------------------------------------------------------------

\* The positions of the account updates among the step's events.
AccountUpdates == {i \in 1..Len(bot.events) : bot.events[i].kind = "account"}

\* C20, as stated: the account update of a fill is emitted before the fill's
\* order update (so at least as many account updates as fills have been
\* emitted when a fill's order update is), whereas the order update of a
\* liquidation is followed by its account update.
C20_AccountThenOrderOnFills ==
    Returned =>
        /\ \A i \in Fills :
               Cardinality({j \in AccountUpdates : j < i})
                   >= Cardinality({j \in Fills : j <= i})
        /\ \A i \in UpdatesWith(LQ) : i + 1 \in AccountUpdates

\* C20, amended: for every fill, as for every liquidation, the order update
\* is emitted first and its account update right after it; no other account
\* update is emitted. The account update of a liquidation sets the balance to
\* 0 and empties the liquidated side.
C20_OrderThenAccount ==
    Returned =>
        /\ \A i \in Fills \cup UpdatesWith(LQ) : i + 1 \in AccountUpdates
        /\ \A j \in AccountUpdates : j - 1 \in Fills \cup UpdatesWith(LQ)
        /\ \A i \in UpdatesWith(LQ) :
               /\ bot.events[i + 1].balance = RZero
               /\ bot.events[i].order.position_side = LONG =>
                      bot.events[i + 1].long = Position(0, RZero, LONG)
               /\ bot.events[i].order.position_side = SHORT =>
                      bot.events[i + 1].short = Position(0, RZero, SHORT)

\* A step fills two orders: it emits order update, account update, order
\* update, account update, and the first account update carries the bought
\* quantity.
C20_Witness ==
    /\ Continued
    /\ Len(bot.events) >= 4
    /\ {1, 3} \subseteq Fills
    /\ {2, 4} \subseteq AccountUpdates
    /\ bot.events[1].order.side = BUY
    /\ bot.events[1].order.position_side = LONG
    /\ bot.events[2].long.qty = AccountBefore(1).long.qty + Filled(1)

\* ---------------------------------------------------------------------------
\* C21: the quantity the fee is charged on
\* ---------------------------------------------------------------------------

\* C21, as stated: the fee a fill takes off the balance is the quantity the
\* fill applies to the position (the order's quantity on a full fill, the
\* candle's volume on a partial one) * fill price * rate, the rate being
\* taker_fee for MARKET orders and maker_fee for the others.
C21_FeeOnFilledQuantity ==
    Continued =>
        \A i \in Fills :
            LET o == bot.events[i].order
            IN  FeeApplied(i) = RNeg(RMul(RI(Filled(i) * o.price), FeeRate(o)))

\* What the matching loops charge: the fee is taken on the quantity of the
\* emitted update, which on a partial fill is the quantity left in the order.
C21_FeeOnUpdateQuantity ==
    Continued =>
        \A i \in Fills :
            LET o == bot.events[i].order
            IN  FeeApplied(i) = RNeg(RMul(RI(o.qty * o.price), FeeRate(o)))

\* ---------------------------------------------------------------------------
\* C22: the candle's volume and the fills of a step
\* ---------------------------------------------------------------------------

RECURSIVE TotalFilled(_)
\* The quantity the fills at the positions in S take, summed.
TotalFilled(S) ==
    IF S = {} THEN 0
    ELSE LET i == CHOOSE k \in S : TRUE
         IN  Filled(i) + TotalFilled(S \ {i})

\* C22, as stated: the quantity a step fills, summed over the orders of both
\* books, is at most the candle's volume.
C22_VolumeCapsStep ==
    Continued => TotalFilled(Fills) <= last_candle.volume

\* What the matching loops ensure: each fill on its own takes at most the
\* candle's volume, and each open order is filled at most once in a step.
C22_VolumeCapsEachFill ==
    Continued =>
        /\ \A i \in Fills : Filled(i) <= last_candle.volume
        /\ \A i, j \in Fills :
               SameOrder(bot.events[i].order, bot.events[j].order) => i = j

\* ---------------------------------------------------------------------------
\* C23: candles without volume
\* ---------------------------------------------------------------------------

\* Size and average price of a position.
Holding(p) == <<p.qty, p.price>>

\* The open orders the step found are open after it as they were, but for
\* the ones a cancellation of the step's admission phase took out.
OpenOrdersKept ==
    \A q \in OrdersIn(entry.open_orders) :
        \/ q \in OrdersIn(bot.open_orders)
        \/ \E i \in UpdatesWith(CANCELED) : SameOrder(bot.events[i].order, q)

\* C23, as stated: a step that continues on a candle with volume 0 fills
\* nothing: it emits no fill, and the balance, the size and price of both
\* positions and the quantity of every open order are what the step found.
C23_ZeroVolumeFillsNothing ==
    (Continued /\ last_candle.volume = 0) =>
        /\ Fills = {}
        /\ bot.balance = entry.balance
        /\ Holding(bot.long) = Holding(entry.long)
        /\ Holding(bot.short) = Holding(entry.short)
        /\ OpenOrdersKept

\* What such a step leaves alone: the positions and the open orders. Every
\* order the candle's prices trigger gets a PARTIALLY_FILLED update with its
\* whole quantity.
C23_ZeroVolumeKeepsPositions ==
    (Continued /\ last_candle.volume = 0) =>
        /\ Holding(bot.long) = Holding(entry.long)
        /\ Holding(bot.short) = Holding(entry.short)
        /\ OpenOrdersKept
        /\ UpdatesWith(FILLED) = {}
        /\ \A i \in Fills : bot.events[i].order.qty = AsFound(bot.events[i].order).qty

\* ---------------------------------------------------------------------------
\* C24: the margin of the orders admitted together
\* ---------------------------------------------------------------------------

\* The orders the step's admission phase put in the open book.
Admissions == UpdatesWith(NEW_ACTION)

RECURSIVE TotalNotional(_)
\* qty * price of the order updates at the positions in S, summed.
TotalNotional(S) ==
    IF S = {} THEN 0
    ELSE LET i == CHOOSE k \in S : TRUE
         IN  bot.events[i].order.qty * bot.events[i].order.price + TotalNotional(S \ {i})

\* C24, as stated: the notional of the orders a step admits, long and short
\* queue together, is strictly below the available margin at the candle's
\* close.
C24_CombinedNotionalBelowMargin ==
    (Continued /\ Admissions # {}) =>
        RLt(RI(TotalNotional(Admissions)), AvailableMargin(bot, last_candle.close, config))

\* What the admission loops ensure: each admitted order on its own is below
\* the available margin, which no admission changes.
C24_EachNotionalBelowMargin ==
    Continued =>
        \A i \in Admissions :
            RLt(RI(TotalNotional({i})), AvailableMargin(bot, last_candle.close, config))

====
